---- MODULE Spec2Model ----
(***************************************************************************)
(* Model of DonyanUtils' concurrent batch core:                            *)
(*   api/ark_api_utils.py      RateLimiter (sliding window, list based)    *)
(*   batch/batch_processor.py  ProgressTracker,                            *)
(*                             execute_single_task_with_retry,             *)
(*                             parallel_batch_processor                    *)
(*   task_runner.py            run_concurrently                            *)
(*   api_wrappers/rate_limiter.py  RateLimiter (deque based)               *)
(*   api/ark_api_utils.py      ArkApiClient._execute_request               *)
(*   api_wrappers/base_client.py   BaseAPIClient._request                  *)
(*                                                                         *)
(* Time.  One tick is 0.01 s, the buffer wait_if_needed adds to its wait.  *)
(* A timestamp t of requests_times is kept as its age, time.time() - t,    *)
(* capped at window_seconds: the code only ever compares an age with the   *)
(* window, so the cap loses nothing and the clock needs no bound.          *)
(*                                                                         *)
(* Threads.  The pool's threads are interchangeable, so a running          *)
(* execute_single_task_with_retry is identified by the index of its task   *)
(* (its future), 1..Len(tasks).  Steps of one thread that touch only its   *)
(* locals are merged with the next step that touches shared state.         *)
(*                                                                         *)
(* task_func is opaque: each invocation nondeterministically returns in    *)
(* time ("ok"), returns after more than config.timeout ("late") or raises  *)
(* an Exception ("raise").  str(e) / time.sleep inside the except handler  *)
(* may themselves raise (the handler "fault"); print is assumed not to.    *)
(***************************************************************************)
EXTENDS Integers, Sequences, FiniteSets, TLC

\* ---------------------------------------------------------------- bounds
MaxTasks   == 2   \* longest task list
MaxWorkers == 2   \* largest config.max_workers
MaxRetries == 2   \* largest config.max_retries
MaxRate    == 2   \* largest config.rate_limit_per_minute
MaxWindow  == 2   \* largest config.rate_limit_window, in ticks
MaxCallers == 2   \* threads that share one deque limiter
MaxCalls   == 3   \* calls of wait_if_needed made on one deque limiter
MaxCount   == 4   \* largest retry_count of _execute_request, max_retries of _request
MaxDelay   == 1   \* largest retry_delay of BaseAPIClient, in seconds
MaxElapsed == 1   \* longest time get_stats measures since the tracker was made, in ticks

\* extra 0.01 s of wait_if_needed, one tick
SafetyMargin == 1

VARIABLES
  tasks,            \* the task list handed to parallel_batch_processor
  config,           \* the BatchConfig
  opc,              \* where parallel_batch_processor is
  submitted,        \* how many tasks the submit loop has submitted
  pc,               \* per task: where its execute_single_task_with_retry is
  attempt,          \* per task: the loop variable of the retry loop
  result,           \* per task: the worker's local result dict
  outcomes,         \* per task: what each task_func invocation did so far
  future,           \* per task: state of its Future
  finished,         \* as_completed: futures already done when it was called
  waiter,           \* as_completed: futures done since, in finishing order
  yielded,          \* as_completed: futures it has yielded so far
  all_results,      \* parallel_batch_processor's all_results
  total_tasks,      \* ProgressTracker
  completed_tasks,  \* ProgressTracker
  failed_tasks,     \* ProgressTracker
  requests_times,   \* RateLimiter: ages of the logged timestamps, oldest first
  total_api_calls,  \* RateLimiter
  lock,             \* RateLimiter.lock: 0 when free, else the holder
  wait_time,        \* remaining sleep of the holder inside wait_if_needed
  waited,           \* history: the latest call of wait_if_needed had to sleep
  admitted,         \* history: ages of the last max_requests admissions
  gap,              \* history: age of the (i - max_requests)-th admission when the i-th was logged
  report,           \* what parallel_batch_processor returned
  completion,       \* history: the tasks in the order their futures finished
  sleeps            \* history: per task, the backoff sleeps it has made

VARIABLES
  \* run_concurrently (task_runner.py)
  tasks_data,       \* the list of task arguments
  max_workers,      \* <<>> for None, else <<n>>
  show_progress,    \* whether a ProgressTracker is made
  rpc,              \* where run_concurrently is: idle, submit, collect, done, raised
  results,          \* the list that is returned, one cell per task
  progress_tracker, \* <<>> for None, else <<its counters>>
  nsubmitted,       \* how many tasks were handed to the executor
  work,             \* per task: new, queued, running, done
  futures,          \* per task: the future's state and outcome
  done_first,       \* as_completed: futures already finished when it started
  order,            \* as_completed: futures finished afterwards, in that order
  seen              \* as_completed: futures yielded so far

VARIABLES
  \* api_wrappers.rate_limiter.RateLimiter and its callers
  max_requests,         \* any integer: the constructor checks nothing
  per_seconds,          \* any integer, in ticks
  requests_timestamps,  \* the deque: ages of the timestamps, oldest first
  dq_lock,              \* self.lock: 0 when free, else the holder
  total_calls_allowed,  \* the counter of admissions
  cpc,                  \* per caller: idle, calling, sleeping, appending, raised
  sleep_left,           \* remaining sleep of the holder
  dq_admitted,          \* history: ages of the last max_requests admissions
  dq_gap                \* history: age of the (i - max_requests)-th admission at the i-th

VARIABLES
  \* ArkApiClient._execute_request (api/ark_api_utils.py)
  retry_count,        \* any integer: nothing checks it
  rate_limiter,       \* whether a limiter was passed
  epc,                \* where the call is: idle, loop, call, sleep, returned
  e_attempt,          \* the loop variable
  e_calls,            \* what each invocation of api_call_func did
  e_admissions,       \* calls of rate_limiter.wait_if_needed made
  e_sleeps,           \* the arguments of time.sleep, in order
  last_exception,     \* the invocation whose exception was kept, 0 for None
  e_return            \* what the call returned

VARIABLES
  \* BaseAPIClient._request (api_wrappers/base_client.py)
  max_retries,        \* any integer: the constructor checks nothing
  retry_delay,        \* any number, in seconds
  bpc,                \* where the call is: idle, loop, request, sleep, returned, raised
  b_attempt,          \* the loop variable
  b_calls,            \* what each session.request / raise_for_status / json did
  b_sleeps,           \* the arguments of time.sleep, in order
  b_end,              \* what the call returned, or the exception it raised
  base_url            \* whether base_url is a string (None is the default)

execVars == <<retry_count, rate_limiter, epc, e_attempt, e_calls, e_admissions,
              e_sleeps, last_exception, e_return>>

requestVars == <<max_retries, retry_delay, bpc, b_attempt, b_calls, b_sleeps, b_end,
                 base_url>>

dequeVars == <<max_requests, per_seconds, requests_timestamps, dq_lock,
               total_calls_allowed, cpc, sleep_left, dq_admitted, dq_gap>>

runnerVars == <<tasks_data, max_workers, show_progress, rpc, results, progress_tracker,
                nsubmitted, work, futures, done_first, order, seen>>

batchAll == <<tasks, config, opc, submitted, pc, attempt, result, outcomes, future,
              finished, waiter, yielded, all_results, total_tasks, completed_tasks,
              failed_tasks, requests_times, total_api_calls, lock, wait_time,
              waited, admitted, gap, report, completion, sleeps>>

vars == <<batchAll, runnerVars, dequeVars, execVars, requestVars>>

\* What parallel_batch_processor, run_concurrently and the deque limiter
\* each leave alone.
outsideBatch   == <<runnerVars, dequeVars, execVars, requestVars>>
outsideRunner  == <<batchAll, dequeVars, execVars, requestVars>>
outsideDeque   == <<batchAll, runnerVars, execVars, requestVars>>
outsideExec    == <<batchAll, runnerVars, dequeVars, requestVars>>
outsideRequest == <<batchAll, runnerVars, dequeVars, execVars>>

batchVars   == <<tasks, config>>
limiterVars == <<requests_times, total_api_calls, lock, wait_time, waited, admitted,
                 gap>>
trackerVars == <<total_tasks, completed_tasks, failed_tasks>>
poolVars    == <<submitted, future, finished, waiter, yielded>>
orchVars    == <<opc, all_results, report>>
workerVars  == <<pc, attempt, result, outcomes>>
historyVars == <<completion, sleeps>>

\* ---------------------------------------------------------------- values
None   == 0                 \* data None; task_func's values are positive
NoGap  == 0 - 1              \* fewer than max_requests admissions came before
NoErr  == <<"None", 0>>     \* error None
NoKey  == <<>>              \* the dict has no such key
Idx    == 1..Len(tasks)

Min(a, b) == IF a < b THEN a ELSE b
Max(a, b) == IF a > b THEN a ELSE b

\* The value the k-th invocation of task_func returns for task data d.
TaskValue(d, k) == 10 * d + k

\* execution_time as measured around the k-th invocation of task_func.
ExecutionTime(k) == <<k>>

\* str(e) of the exception the k-th attempt ended with.
ErrorOf(kind, k) == <<kind, k>>

\* ------------------------------------------------------------ RateLimiter
\* Variant: __init__ lets max_requests == 0 through.
RateLimiterAcceptsZero ==
  /\ config.rate_limit_per_minute >= 0
  /\ config.rate_limit_window > 0

\* __init__: ValueError unless max_requests > 0 and window_seconds > 0.
RateLimiterAccepts ==
  /\ config.rate_limit_per_minute > 0
  /\ config.rate_limit_window > 0

\* oldest_request_time = self.requests_times[0] on an empty list: the limit
\* test let an empty list through.
IndexError(times) == Len(times) >= config.rate_limit_per_minute /\ times = <<>>

\* [t for t in self.requests_times if current_time - t < self.window_seconds]
Purge(times) == SelectSeq(times, LAMBDA a : a < config.rate_limit_window)

\* (oldest_request_time + self.window_seconds) - current_time + 0.01
WaitTime(times) == (config.rate_limit_window - times[1]) + SafetyMargin

\* time.time() moves on by one tick: every logged timestamp ages, a sleeper's
\* remaining sleep shrinks.
Age(times) == [k \in 1..Len(times) |-> Min(times[k] + 1, config.rate_limit_window)]

Tick ==
  /\ opc \in {"submit", "as_completed", "collect"}
  /\ \/ wait_time > 0
     \/ \E k \in 1..Len(requests_times) : requests_times[k] < config.rate_limit_window
     \/ \E k \in 1..Len(admitted) : admitted[k] < config.rate_limit_window
  /\ requests_times' = Age(requests_times)
  /\ admitted' = Age(admitted)
  /\ wait_time' = Max(wait_time - 1, 0)
  /\ UNCHANGED <<batchVars, orchVars, poolVars, workerVars, trackerVars,
                 total_api_calls, lock, waited, gap>>
  /\ UNCHANGED outsideBatch
  /\ UNCHANGED historyVars

\* Variant: `>` for `>=` in the limit test.
MustWaitOffByOne(times) ==
  Len(times) > config.rate_limit_per_minute /\ WaitTime(times) > 0

\* if len(self.requests_times) >= self.max_requests: ... if wait_time > 0:
MustWait(times) == Len(times) >= config.rate_limit_per_minute /\ WaitTime(times) > 0

\* Variant: the lock is given up for the time of the sleep.
WaitEnterSleepsUnlocked(c) ==
  /\ lock = 0
  /\ lock' = IF MustWait(Purge(requests_times)) THEN 0 ELSE c
  /\ requests_times' = Purge(requests_times)
  /\ wait_time' = IF MustWait(Purge(requests_times))
                    THEN WaitTime(Purge(requests_times)) ELSE 0
  /\ waited' = MustWait(Purge(requests_times))
  /\ UNCHANGED <<total_api_calls, admitted, gap>>

\* with self.lock: current_time = time.time(); purge; decide whether to sleep.
\* The caller c takes the lock and keeps it until WaitAppend.
WaitEnter(c) ==
  /\ lock = 0
  /\ lock' = c
  /\ requests_times' = Purge(requests_times)
  /\ wait_time' = IF MustWait(Purge(requests_times))
                    THEN WaitTime(Purge(requests_times)) ELSE 0
  /\ waited' = MustWait(Purge(requests_times))
  /\ UNCHANGED <<total_api_calls, admitted, gap>>

\* Variant: the list is not purged again after the sleep.
RepurgeSkipped(times) == times

\* time.sleep(wait_time) is over: current_time = time.time(); purge again.
Repurge(times) == Purge(times)

WaitWake(c) ==
  /\ lock = c
  /\ wait_time = 0
  /\ requests_times' = Repurge(requests_times)
  /\ UNCHANGED <<total_api_calls, lock, wait_time, waited, admitted, gap>>

\* self.requests_times.append(time.time()); self.total_api_calls += 1; unlock.
Record(times) == Append(times, 0)

\* Variant: the lock is not released when the call returns.
WaitAppendKeepsLock(c) ==
  /\ lock = c
  /\ requests_times' = Record(requests_times)
  /\ total_api_calls' = total_api_calls + 1
  /\ lock' = lock
  /\ gap' = IF Len(admitted) = config.rate_limit_per_minute THEN admitted[1] ELSE NoGap
  /\ admitted' = IF Len(admitted) = config.rate_limit_per_minute
                   THEN Append(Tail(admitted), 0) ELSE Append(admitted, 0)
  /\ UNCHANGED <<wait_time, waited>>

WaitAppend(c) ==
  /\ lock = c
  /\ requests_times' = Record(requests_times)
  /\ total_api_calls' = total_api_calls + 1
  /\ lock' = 0
  /\ gap' = IF Len(admitted) = config.rate_limit_per_minute THEN admitted[1] ELSE NoGap
  /\ admitted' = IF Len(admitted) = config.rate_limit_per_minute
                   THEN Append(Tail(admitted), 0) ELSE Append(admitted, 0)
  /\ UNCHANGED <<wait_time, waited>>

\* --------------------------------------------------------- ProgressTracker
\* Variant: failures are not counted.
update_progress_success_only(success) ==
  /\ completed_tasks' = IF success THEN completed_tasks + 1 ELSE completed_tasks
  /\ UNCHANGED <<failed_tasks, total_tasks>>

\* Variant: the else is missing, a success is counted as a failure too.
update_progress_no_else(success) ==
  /\ completed_tasks' = IF success THEN completed_tasks + 1 ELSE completed_tasks
  /\ failed_tasks' = failed_tasks + 1
  /\ UNCHANGED total_tasks

\* update_progress(success): one counter goes up, under the tracker's lock.
update_progress(success) ==
  /\ completed_tasks' = IF success THEN completed_tasks + 1 ELSE completed_tasks
  /\ failed_tasks' = IF success THEN failed_tasks ELSE failed_tasks + 1
  /\ UNCHANGED total_tasks

\* get_stats(): the counters as they are read and the figures derived from
\* them; elapsed_time is time.time() - self.start_time.  The quotients are
\* kept as their whole part.
get_stats(elapsed_time) ==
  [total_tasks |-> total_tasks,
   completed_tasks |-> completed_tasks,
   failed_tasks |-> failed_tasks,
   success_rate |-> IF total_tasks > 0
                      THEN (completed_tasks * 100) \div total_tasks ELSE 0,
   elapsed_time |-> elapsed_time,
   tasks_per_second |-> IF elapsed_time > 0
                          THEN completed_tasks \div elapsed_time ELSE 0]

\* ------------------------------------------ execute_single_task_with_retry
\* Variant: data starts as the task's data instead of None.
NewResultDataPreset(i) == [success |-> FALSE, data |-> tasks[i], error |-> NoErr,
                           attempts |-> 0, task_data |-> tasks[i], fut |-> i,
                           execution_time |-> NoKey]

\* result = {'success': False, 'data': None, 'error': None, 'attempts': 0, ...}
\* fut is not a key of the dict: it names the future the record came from.
\* The dict has no 'execution_time' key yet.
NewResult(i) == [success |-> FALSE, data |-> None, error |-> NoErr,
                 attempts |-> 0, task_data |-> tasks[i], fut |-> i,
                 execution_time |-> NoKey]

Running == {"loop", "rl_sleep", "rl_append", "running", "backoff",
            "returning", "raising"}

\* Variant: one thread more than configured.
PoolSizeOffByOne == config.max_workers + 1

\* ThreadPoolExecutor(max_workers=config.max_workers)
PoolSize == config.max_workers

\* A pool thread takes the oldest queued work item (the queue is FIFO).
Dequeue(i) ==
  /\ pc[i] = "queued"
  /\ \A j \in 1..(i - 1) : pc[j] # "queued"
  /\ Cardinality({j \in Idx : pc[j] \in Running}) < PoolSize
  /\ pc' = [pc EXCEPT ![i] = "loop"]
  /\ result' = [result EXCEPT ![i] = NewResult(i)]
  /\ attempt' = [attempt EXCEPT ![i] = 0]
  /\ UNCHANGED <<batchVars, orchVars, poolVars, trackerVars, limiterVars, outcomes>>
  /\ UNCHANGED outsideBatch
  /\ UNCHANGED historyVars

\* Variant: zero retries are coerced to a single attempt.
MoreAttemptsAtLeastOne(i) == attempt[i] < Max(config.max_retries, 1)

\* Variant: range(config.max_retries + 1).
MoreAttemptsInclusive(i) == attempt[i] <= config.max_retries

\* for attempt in range(config.max_retries)
MoreAttempts(i) == attempt[i] < config.max_retries

\* Variant: the zero-based loop variable is stored.
AttemptNumberZeroBased(i) == attempt[i]

\* attempt + 1
AttemptNumber(i) == attempt[i] + 1

\* result['attempts'] = attempt + 1; rate_limiter.wait_if_needed() gets the lock.
StartAttempt(i) ==
  /\ pc[i] = "loop"
  /\ MoreAttempts(i)
  /\ WaitEnter(i)
  /\ result' = [result EXCEPT ![i].attempts = AttemptNumber(i)]
  /\ pc' = [pc EXCEPT ![i] = IF MustWait(Purge(requests_times))
                               THEN "rl_sleep" ELSE "rl_append"]
  /\ UNCHANGED <<batchVars, orchVars, poolVars, trackerVars, attempt, outcomes>>
  /\ UNCHANGED outsideBatch
  /\ UNCHANGED historyVars

WakeUp(i) ==
  /\ pc[i] = "rl_sleep"
  /\ WaitWake(i)
  /\ pc' = [pc EXCEPT ![i] = "rl_append"]
  /\ UNCHANGED <<batchVars, orchVars, poolVars, trackerVars, attempt, result, outcomes>>
  /\ UNCHANGED outsideBatch
  /\ UNCHANGED historyVars

\* wait_if_needed returns and task_func(task_data) is entered.
Invoke(i) ==
  /\ pc[i] = "rl_append"
  /\ WaitAppend(i)
  /\ pc' = [pc EXCEPT ![i] = "running"]
  /\ UNCHANGED <<batchVars, orchVars, poolVars, trackerVars, attempt, result, outcomes>>
  /\ UNCHANGED outsideBatch
  /\ UNCHANGED historyVars

\* Variant: the return after update_progress is missing, the loop goes on.
SucceedNoReturn(i) ==
  /\ pc[i] = "running"
  /\ outcomes' = [outcomes EXCEPT ![i] = Append(@, "ok")]
  /\ result' = [result EXCEPT ![i].success = TRUE,
                              ![i].data = TaskValue(tasks[i], Len(outcomes[i]) + 1),
                              ![i].execution_time = ExecutionTime(Len(outcomes[i]) + 1)]
  /\ update_progress(TRUE)
  /\ attempt' = [attempt EXCEPT ![i] = @ + 1]
  /\ pc' = [pc EXCEPT ![i] = "loop"]
  /\ UNCHANGED <<batchVars, orchVars, poolVars, limiterVars>>
  /\ UNCHANGED outsideBatch
  /\ UNCHANGED historyVars

\* task_func returned within config.timeout: lines 97-102.
Succeed(i) ==
  /\ pc[i] = "running"
  /\ outcomes' = [outcomes EXCEPT ![i] = Append(@, "ok")]
  /\ result' = [result EXCEPT ![i].success = TRUE,
                              ![i].data = TaskValue(tasks[i], Len(outcomes[i]) + 1),
                              ![i].execution_time = ExecutionTime(Len(outcomes[i]) + 1)]
  /\ update_progress(TRUE)
  /\ pc' = [pc EXCEPT ![i] = "returning"]
  /\ UNCHANGED <<batchVars, orchVars, poolVars, limiterVars, attempt>>
  /\ UNCHANGED outsideBatch
  /\ UNCHANGED historyVars

\* Variant: the sleep is not skipped after the last allowed attempt.
WillRetryAlways(i) == attempt[i] < config.max_retries

\* if attempt < config.max_retries - 1
WillRetry(i) == attempt[i] < config.max_retries - 1

\* Variant: the timeout check comes after the value is stored.
FailKeepsLateValue(i, kind, fault) ==
  /\ pc[i] = "running"
  /\ outcomes' = [outcomes EXCEPT ![i] = Append(@, kind)]
  /\ result' = [result EXCEPT ![i].error = ErrorOf(kind, attempt[i] + 1),
                              ![i].data = IF kind = "late"
                                            THEN TaskValue(tasks[i], Len(outcomes[i]) + 1)
                                            ELSE @]
  /\ pc' = [pc EXCEPT ![i] = IF fault THEN "raising"
                             ELSE IF WillRetry(i) THEN "backoff" ELSE "loop"]
  /\ attempt' = [attempt EXCEPT ![i] = IF fault \/ WillRetry(i) THEN @ ELSE @ + 1]
  /\ UNCHANGED <<batchVars, orchVars, poolVars, trackerVars, limiterVars>>
  /\ UNCHANGED outsideBatch
  /\ UNCHANGED historyVars

\* Variant: the handler stores the error only when none is stored yet.
FailKeepsFirstError(i, kind, fault) ==
  /\ pc[i] = "running"
  /\ outcomes' = [outcomes EXCEPT ![i] = Append(@, kind)]
  /\ result' = [result EXCEPT ![i].error = IF @ = NoErr
                                             THEN ErrorOf(kind, attempt[i] + 1) ELSE @]
  /\ pc' = [pc EXCEPT ![i] = IF fault THEN "raising"
                             ELSE IF WillRetry(i) THEN "backoff" ELSE "loop"]
  /\ attempt' = [attempt EXCEPT ![i] = IF fault \/ WillRetry(i) THEN @ ELSE @ + 1]
  /\ UNCHANGED <<batchVars, orchVars, poolVars, trackerVars, limiterVars>>
  /\ UNCHANGED outsideBatch
  /\ UNCHANGED historyVars

\* task_func raised, or returned too late and TimeoutError was raised: the
\* except handler, lines 104-111.  fault: the handler itself raises.
Fail(i, kind, fault) ==
  /\ pc[i] = "running"
  /\ outcomes' = [outcomes EXCEPT ![i] = Append(@, kind)]
  /\ result' = [result EXCEPT ![i].error = ErrorOf(kind, attempt[i] + 1)]
  /\ pc' = [pc EXCEPT ![i] = IF fault THEN "raising"
                             ELSE IF WillRetry(i) THEN "backoff" ELSE "loop"]
  /\ attempt' = [attempt EXCEPT ![i] = IF fault \/ WillRetry(i) THEN @ ELSE @ + 1]
  /\ UNCHANGED <<batchVars, orchVars, poolVars, trackerVars, limiterVars>>
  /\ UNCHANGED outsideBatch
  /\ UNCHANGED historyVars

\* time.sleep(config.retry_delay) is over: next iteration.
Backoff(i) ==
  /\ pc[i] = "backoff"
  /\ attempt' = [attempt EXCEPT ![i] = @ + 1]
  /\ pc' = [pc EXCEPT ![i] = "loop"]
  /\ UNCHANGED <<batchVars, orchVars, poolVars, trackerVars, limiterVars, result, outcomes>>
  /\ UNCHANGED outsideBatch
  /\ sleeps' = [sleeps EXCEPT ![i] = @ + 1]
  /\ UNCHANGED completion

\* Variant: the loop runs out without telling the tracker.
ExhaustSilent(i) ==
  /\ pc[i] = "loop"
  /\ ~MoreAttempts(i)
  /\ pc' = [pc EXCEPT ![i] = "returning"]
  /\ UNCHANGED <<batchVars, orchVars, poolVars, limiterVars, trackerVars, attempt,
                 result, outcomes>>
  /\ UNCHANGED outsideBatch
  /\ UNCHANGED historyVars

\* The loop is exhausted: progress_tracker.update_progress(success=False); return.
Exhaust(i) ==
  /\ pc[i] = "loop"
  /\ ~MoreAttempts(i)
  /\ update_progress(FALSE)
  /\ pc' = [pc EXCEPT ![i] = "returning"]
  /\ UNCHANGED <<batchVars, orchVars, poolVars, limiterVars, attempt, result, outcomes>>
  /\ UNCHANGED outsideBatch
  /\ UNCHANGED historyVars

\* The work item ends: the future gets its result or its exception, and a
\* waiter installed by as_completed is told.
Complete(i) ==
  /\ pc[i] \in {"returning", "raising"}
  /\ future' = [future EXCEPT ![i] = IF pc[i] = "returning" THEN "result" ELSE "exception"]
  /\ waiter' = IF opc = "collect" THEN Append(waiter, i) ELSE waiter
  /\ pc' = [pc EXCEPT ![i] = "done"]
  /\ UNCHANGED <<batchVars, orchVars, trackerVars, limiterVars, submitted, finished,
                 yielded, attempt, result, outcomes>>
  /\ UNCHANGED outsideBatch
  /\ completion' = Append(completion, i)
  /\ UNCHANGED sleeps

\* ------------------------------------------------ parallel_batch_processor
\* RateLimiter(...) raises ValueError on max_requests <= 0 or
\* window_seconds <= 0; ThreadPoolExecutor raises it on max_workers <= 0.
ConstructorsAccept ==
  /\ RateLimiterAccepts
  /\ config.max_workers > 0

\* Variant: the test for an empty list is missing.
NotTasksNever == FALSE

\* if not tasks:
NotTasks == tasks = <<>>

\* if not tasks: return the empty report (before anything is constructed).
EmptyReport == [results |-> <<>>,
                stats |-> [total_tasks |-> 0, completed_tasks |-> 0, failed_tasks |-> 0],
                successful_results |-> <<>>,
                failed_tasks |-> <<>>]

CallEmpty ==
  /\ opc = "idle"
  /\ NotTasks
  /\ report' = EmptyReport
  /\ opc' = "done"
  /\ UNCHANGED <<batchVars, poolVars, workerVars, trackerVars, limiterVars, all_results>>
  /\ UNCHANGED outsideBatch
  /\ UNCHANGED historyVars

\* A constructor raises: the call ends with that exception.
CallInvalid ==
  /\ opc = "idle"
  /\ ~NotTasks
  /\ ~ConstructorsAccept
  /\ opc' = "raised"
  /\ UNCHANGED <<batchVars, poolVars, workerVars, trackerVars, limiterVars,
                 all_results, report>>
  /\ UNCHANGED outsideBatch
  /\ UNCHANGED historyVars

\* Variant: one module-level limiter serves every batch.
ReusedLimiter == UNCHANGED <<requests_times, total_api_calls, lock>>

\* RateLimiter(...): requests_times = [], total_api_calls = 0, a new lock.
NewLimiter ==
  /\ requests_times' = <<>>
  /\ total_api_calls' = 0
  /\ lock' = 0

\* ProgressTracker(len(tasks)), RateLimiter(...), all_results = [], the pool.
CallStart ==
  /\ opc = "idle"
  /\ ~NotTasks
  /\ ConstructorsAccept
  /\ total_tasks' = Len(tasks)
  /\ completed_tasks' = 0
  /\ failed_tasks' = 0
  /\ NewLimiter
  /\ all_results' = <<>>
  /\ opc' = "submit"
  /\ UNCHANGED <<batchVars, poolVars, workerVars, wait_time, waited, admitted, gap,
                 report>>
  /\ UNCHANGED outsideBatch
  /\ UNCHANGED historyVars

\* executor.submit(execute_single_task_with_retry, ...) for the next task.
Submit ==
  /\ opc = "submit"
  /\ submitted < Len(tasks)
  /\ submitted' = submitted + 1
  /\ pc' = [pc EXCEPT ![submitted + 1] = "queued"]
  /\ UNCHANGED <<batchVars, orchVars, trackerVars, limiterVars, future, finished,
                 waiter, yielded, attempt, result, outcomes>>
  /\ UNCHANGED outsideBatch
  /\ UNCHANGED historyVars

\* as_completed(future_to_task) starts: the futures already done are set
\* aside (a set: they come out in any order), a waiter collects the others.
AsCompleted ==
  /\ opc = "submit"
  /\ submitted = Len(tasks)
  /\ finished' = {i \in Idx : future[i] # "pending"}
  /\ waiter' = <<>>
  /\ yielded' = {}
  /\ opc' = "collect"
  /\ UNCHANGED <<batchVars, workerVars, trackerVars, limiterVars, submitted, future,
                 all_results, report>>
  /\ UNCHANGED outsideBatch
  /\ UNCHANGED historyVars

\* Variant: task_data is not looked up in future_to_task, so it is still the
\* last value of the submit loop's variable.
ErrorResultStale(i) == [success |-> FALSE, data |-> None, error |-> ErrorOf("uncaught", 0),
                        attempts |-> 0, task_data |-> tasks[Len(tasks)], fut |-> i,
                        execution_time |-> NoKey]

\* The record built for a future whose work item raised, lines 219-225.
ErrorResult(i) == [success |-> FALSE, data |-> None, error |-> ErrorOf("uncaught", 0),
                   attempts |-> 0, task_data |-> tasks[i], fut |-> i,
                   execution_time |-> NoKey]

\* Variant: the except clause does not match what the work item raised.
CaughtNever(i) == FALSE

\* What the except clause of the collecting loop catches (Exception).
Caught(i) == future[i] = "exception"

\* Variant: the except clause appends nothing.
CollectDropsErrors(rs, i) == IF Caught(i) THEN rs ELSE Append(rs, result[i])

\* all_results.append(result) in the try, all_results.append(error_result) in
\* the except clause.
Collect(rs, i) == Append(rs, IF Caught(i) THEN ErrorResult(i) ELSE result[i])

\* Variant: the except clause does not tell the tracker.
CountUncaughtMissing == UNCHANGED trackerVars

\* tracker.update_progress(False) in the except clause.
CountUncaught == update_progress(FALSE)

\* One iteration of `for future in as_completed(...)` on future i.
Gather(i) ==
  /\ yielded' = yielded \cup {i}
  /\ IF future[i] = "exception" /\ ~Caught(i)
       THEN /\ opc' = "raised"
            /\ UNCHANGED <<all_results, trackerVars>>
       ELSE /\ all_results' = Collect(all_results, i)
            /\ IF Caught(i) THEN CountUncaught ELSE UNCHANGED trackerVars
            /\ opc' = opc
  /\ UNCHANGED <<batchVars, workerVars, limiterVars, submitted, future, report>>

\* as_completed yields a future that was already done when it started.
CollectFinished(i) ==
  /\ opc = "collect"
  /\ i \in finished \ yielded
  /\ Gather(i)
  /\ UNCHANGED <<finished, waiter>>
  /\ UNCHANGED outsideBatch
  /\ UNCHANGED historyVars

\* as_completed yields the futures that finished later, in finishing order.
CollectWaited ==
  /\ opc = "collect"
  /\ finished \subseteq yielded
  /\ waiter # <<>>
  /\ Gather(Head(waiter))
  /\ waiter' = Tail(waiter)
  /\ UNCHANGED finished
  /\ UNCHANGED outsideBatch
  /\ UNCHANGED historyVars

\* Variant: the success filter is missing.
SuccessfulResultsUnfiltered(rs) == [k \in 1..Len(rs) |-> rs[k].data]

\* [r['data'] for r in all_results if r['success']]
SuccessfulResults(rs) ==
  LET ok == SelectSeq(rs, LAMBDA r : r.success)
  IN [k \in 1..Len(ok) |-> ok[k].data]

\* [r for r in all_results if not r['success']]
FailedTasks(rs) == SelectSeq(rs, LAMBDA r : ~r.success)

\* Every future was yielded: the pool shuts down, stats are read, return.
\* (An empty yielded set with no task cannot occur here: CallEmpty returned.)
Return ==
  /\ opc = "collect"
  /\ yielded = Idx
  /\ \E elapsed_time \in 0..MaxElapsed :
        report' = [results |-> all_results,
                   stats |-> get_stats(elapsed_time),
                   successful_results |-> SuccessfulResults(all_results),
                   failed_tasks |-> FailedTasks(all_results)]
  /\ opc' = "done"
  /\ UNCHANGED <<batchVars, poolVars, workerVars, trackerVars, limiterVars, all_results>>
  /\ UNCHANGED outsideBatch
  /\ UNCHANGED historyVars

\* ------------------------------------------------------ simple_parallel_map
\* str(task_data)
Str(d) == IF d = 1 THEN "1" ELSE "2"

\* {str(res['task_data']): res for res in result['results']}: of the records
\* with the same key the last one stays.
task_map(rs) ==
  LET keys    == {Str(rs[n].task_data) : n \in 1..Len(rs)}
      last(k) == CHOOSE n \in 1..Len(rs) :
                    /\ Str(rs[n].task_data) = k
                    /\ \A m \in 1..Len(rs) : Str(rs[m].task_data) = k => m <= n
  IN [k \in keys |-> rs[last(k)]]

\* The list simple_parallel_map builds from the report of
\* parallel_batch_processor (called with max_retries = 1): for each task in
\* input order, the data of the record found under str(task_data) if that
\* record is a success, else None.
simple_parallel_map ==
  LET tm == task_map(report.results)
  IN [i \in Idx |->
        IF Str(tasks[i]) \in DOMAIN tm /\ tm[Str(tasks[i])].success
          THEN tm[Str(tasks[i])].data
          ELSE None]

\* ---------------------------------------------------------- run_concurrently
RIdx == 1..Len(tasks_data)

\* A cell of the results list: None, a returned value, an exception object.
Cell(kind, x) == <<kind, x>>

EmptyCell == Cell("None", 0)

\* How the item is handed to task_function: *task_args for a tuple,
\* **task_args for a dict, as the single argument otherwise.
Bind(task_args) ==
  <<IF task_args.kind = "tuple" THEN "*args"
    ELSE IF task_args.kind = "dict" THEN "**kwargs" ELSE "arg", task_args.v>>

PendingFuture == [state |-> "pending", call |-> <<"none", 0>>, outcome |-> EmptyCell]

\* [None] * len(tasks_data)
NoResults == [i \in RIdx |-> EmptyCell]

\* ProgressTracker(len(tasks_data)) if show_progress else None
NewTracker ==
  IF show_progress
    THEN <<[total_tasks |-> Len(tasks_data), completed_tasks |-> 0, failed_tasks |-> 0]>>
    ELSE <<>>

\* ProgressTracker.task_done (task_runner.py); nothing if there is no tracker.
task_done(success) ==
  progress_tracker' =
    IF progress_tracker = <<>> THEN progress_tracker
    ELSE IF success
      THEN <<[progress_tracker[1] EXCEPT !.completed_tasks = @ + 1]>>
      ELSE <<[progress_tracker[1] EXCEPT !.failed_tasks = @ + 1]>>

\* Executor(max_workers=max_workers): ValueError if max_workers <= 0.
ExecutorAccepts == IF max_workers = <<>> THEN TRUE ELSE max_workers[1] > 0

\* The threads the pool may start.  With max_workers None the default,
\* min(32, cpu_count + 4), is above the number of tasks modelled here.
Threads == IF max_workers = <<>> THEN Len(tasks_data) ELSE max_workers[1]

\* if not tasks_data: return []
RunEmpty ==
  /\ rpc = "idle"
  /\ tasks_data = <<>>
  /\ results' = <<>>
  /\ rpc' = "done"
  /\ UNCHANGED <<tasks_data, max_workers, show_progress, progress_tracker, nsubmitted,
                 work, futures, done_first, order, seen>>
  /\ UNCHANGED outsideRunner

\* The executor's constructor raises; results and the tracker are locals.
RunInvalid ==
  /\ rpc = "idle"
  /\ tasks_data # <<>>
  /\ ~ExecutorAccepts
  /\ rpc' = "raised"
  /\ UNCHANGED <<tasks_data, max_workers, show_progress, results, progress_tracker,
                 nsubmitted, work, futures, done_first, order, seen>>
  /\ UNCHANGED outsideRunner

\* results = [None] * len(tasks_data); the tracker; the executor.
RunStart ==
  /\ rpc = "idle"
  /\ tasks_data # <<>>
  /\ ExecutorAccepts
  /\ results' = NoResults
  /\ progress_tracker' = NewTracker
  /\ rpc' = "submit"
  /\ UNCHANGED <<tasks_data, max_workers, show_progress, nsubmitted, work, futures,
                 done_first, order, seen>>
  /\ UNCHANGED outsideRunner

\* future = executor.submit(task_function, ...); future_to_index[future] = i
RunSubmit ==
  /\ rpc = "submit"
  /\ nsubmitted < Len(tasks_data)
  /\ nsubmitted' = nsubmitted + 1
  /\ work' = [work EXCEPT ![nsubmitted + 1] = "queued"]
  /\ futures' = [futures EXCEPT ![nsubmitted + 1].call = Bind(tasks_data[nsubmitted + 1])]
  /\ UNCHANGED <<tasks_data, max_workers, show_progress, rpc, results, progress_tracker,
                 done_first, order, seen>>
  /\ UNCHANGED outsideRunner

\* A pool thread takes the oldest queued work item and calls task_function.
RunTake(i) ==
  /\ work[i] = "queued"
  /\ \A j \in 1..(i - 1) : work[j] # "queued"
  /\ Cardinality({j \in RIdx : work[j] = "running"}) < Threads
  /\ work' = [work EXCEPT ![i] = "running"]
  /\ UNCHANGED <<tasks_data, max_workers, show_progress, rpc, results, progress_tracker,
                 nsubmitted, futures, done_first, order, seen>>
  /\ UNCHANGED outsideRunner

\* task_function returns a value or raises: the future holds the outcome;
\* a running as_completed is told.
RunFinish(i, raises) ==
  /\ work[i] = "running"
  /\ work' = [work EXCEPT ![i] = "done"]
  /\ futures' = [futures EXCEPT
       ![i].state = IF raises THEN "exception" ELSE "result",
       ![i].outcome = IF raises THEN Cell("exception", ErrorOf("raise", i))
                      ELSE Cell("value", TaskValue(futures[i].call[2], i))]
  /\ order' = IF rpc = "collect" THEN Append(order, i) ELSE order
  /\ UNCHANGED <<tasks_data, max_workers, show_progress, rpc, results, progress_tracker,
                 nsubmitted, done_first, seen>>
  /\ UNCHANGED outsideRunner

\* concurrent.futures.as_completed(future_to_index) starts.
RunAsCompleted ==
  /\ rpc = "submit"
  /\ nsubmitted = Len(tasks_data)
  /\ done_first' = {i \in RIdx : futures[i].state # "pending"}
  /\ order' = <<>>
  /\ seen' = {}
  /\ rpc' = "collect"
  /\ UNCHANGED <<tasks_data, max_workers, show_progress, results, progress_tracker,
                 nsubmitted, work, futures>>
  /\ UNCHANGED outsideRunner

\* Variant: the outcome is put at the next free position.
StoreInYieldOrder(rs, index, x) == [rs EXCEPT ![Cardinality(seen) + 1] = x]

\* results[index] = result   /   results[index] = e
Store(rs, index, x) == [rs EXCEPT ![index] = x]

\* index = future_to_index[future]
future_to_index(i) == i

\* One iteration of the loop over as_completed, for future i.
RunGather(i) ==
  /\ seen' = seen \cup {i}
  /\ results' = Store(results, future_to_index(i), futures[i].outcome)
  /\ task_done(futures[i].state = "result")
  /\ UNCHANGED <<tasks_data, max_workers, show_progress, rpc, nsubmitted, work, futures>>

RunCollectFinished(i) ==
  /\ rpc = "collect"
  /\ i \in done_first \ seen
  /\ RunGather(i)
  /\ UNCHANGED <<done_first, order>>
  /\ UNCHANGED outsideRunner

RunCollectWaited ==
  /\ rpc = "collect"
  /\ done_first \subseteq seen
  /\ order # <<>>
  /\ RunGather(Head(order))
  /\ order' = Tail(order)
  /\ UNCHANGED done_first
  /\ UNCHANGED outsideRunner

\* as_completed is exhausted, the executor shuts down: return results.
RunReturn ==
  /\ rpc = "collect"
  /\ seen = RIdx
  /\ rpc' = "done"
  /\ UNCHANGED <<tasks_data, max_workers, show_progress, results, progress_tracker,
                 nsubmitted, work, futures, done_first, order, seen>>
  /\ UNCHANGED outsideRunner

\* run_concurrently is not called.
RunnerIdle ==
  /\ tasks_data = <<>>
  /\ max_workers = <<>>
  /\ show_progress = FALSE
  /\ rpc = "idle"
  /\ results = <<>>
  /\ progress_tracker = <<>>
  /\ nsubmitted = 0
  /\ work = <<>>
  /\ futures = <<>>
  /\ done_first = {}
  /\ order = <<>>
  /\ seen = {}

\* ------------------------------------ api_wrappers.rate_limiter.RateLimiter
Callers == 1..MaxCallers

\* Ages are counted up to the window; a window <= 0 makes every age old.
AgeCap == Max(per_seconds, 0)

\* while self.requests_timestamps and
\*       self.requests_timestamps[0] <= now - self.per_seconds: popleft()
RECURSIVE PopOld(_)
PopOld(ts) == IF ts # <<>> /\ ts[1] >= per_seconds THEN PopOld(Tail(ts)) ELSE ts

\* Variant: the wait ends one tick early.
DqWaitTimeShort(ts) == (per_seconds - ts[1]) - 1

\* (oldest_request_time + self.per_seconds) - now
DqWaitTime(ts) == per_seconds - ts[1]

\* self.requests_timestamps[0] on an empty deque, reached when
\* len(self.requests_timestamps) >= self.max_requests holds for length 0.
DqIndexError(ts) == Len(ts) >= max_requests /\ ts = <<>>

\* A thread calls wait_if_needed and waits for the lock.
DqCall(c) ==
  /\ cpc[c] = "idle"
  /\ total_calls_allowed + Cardinality({d \in Callers : cpc[d] \notin {"idle", "raised"}})
        < MaxCalls
  /\ cpc' = [cpc EXCEPT ![c] = "calling"]
  /\ UNCHANGED <<max_requests, per_seconds, requests_timestamps, dq_lock,
                 total_calls_allowed, sleep_left, dq_admitted, dq_gap>>
  /\ UNCHANGED outsideDeque

\* with self.lock: now = time.monotonic(); pop the old timestamps; then
\* IndexError (the with block releases the lock), or sleep, or go on.
DqEnter(c) ==
  /\ cpc[c] = "calling"
  /\ dq_lock = 0
  /\ requests_timestamps' = PopOld(requests_timestamps)
  /\ IF DqIndexError(PopOld(requests_timestamps))
       THEN /\ cpc' = [cpc EXCEPT ![c] = "raised"]
            /\ dq_lock' = 0
            /\ sleep_left' = 0
       ELSE IF Len(PopOld(requests_timestamps)) >= max_requests
               /\ DqWaitTime(PopOld(requests_timestamps)) > 0
         THEN /\ cpc' = [cpc EXCEPT ![c] = "sleeping"]
              /\ dq_lock' = c
              /\ sleep_left' = DqWaitTime(PopOld(requests_timestamps))
         ELSE /\ cpc' = [cpc EXCEPT ![c] = "appending"]
              /\ dq_lock' = c
              /\ sleep_left' = 0
  /\ UNCHANGED <<max_requests, per_seconds, total_calls_allowed, dq_admitted, dq_gap>>
  /\ UNCHANGED outsideDeque

\* time.sleep(wait_time) is over; the deque is not looked at again.
DqWake(c) ==
  /\ cpc[c] = "sleeping"
  /\ sleep_left = 0
  /\ cpc' = [cpc EXCEPT ![c] = "appending"]
  /\ UNCHANGED <<max_requests, per_seconds, requests_timestamps, dq_lock,
                 total_calls_allowed, sleep_left, dq_admitted, dq_gap>>
  /\ UNCHANGED outsideDeque

\* self.requests_timestamps.append(time.monotonic());
\* self.total_calls_allowed += 1; the lock is released, the call returns.
DqAppend(c) ==
  /\ cpc[c] = "appending"
  /\ requests_timestamps' = Append(requests_timestamps, 0)
  /\ total_calls_allowed' = total_calls_allowed + 1
  /\ dq_lock' = 0
  /\ cpc' = [cpc EXCEPT ![c] = "idle"]
  /\ dq_gap' = IF max_requests >= 1 /\ Len(dq_admitted) = max_requests
                 THEN dq_admitted[1] ELSE NoGap
  /\ dq_admitted' = IF max_requests >= 1 /\ Len(dq_admitted) = max_requests
                      THEN Append(Tail(dq_admitted), 0) ELSE Append(dq_admitted, 0)
  /\ UNCHANGED <<max_requests, per_seconds, sleep_left>>
  /\ UNCHANGED outsideDeque

\* time.monotonic() moves on by one tick.
DqAge(ts) == [k \in 1..Len(ts) |-> Min(ts[k] + 1, AgeCap)]

DqTick ==
  /\ \/ sleep_left > 0
     \/ \E k \in 1..Len(requests_timestamps) : requests_timestamps[k] < AgeCap
     \/ \E k \in 1..Len(dq_admitted) : dq_admitted[k] < AgeCap
  /\ requests_timestamps' = DqAge(requests_timestamps)
  /\ dq_admitted' = DqAge(dq_admitted)
  /\ sleep_left' = Max(sleep_left - 1, 0)
  /\ UNCHANGED <<max_requests, per_seconds, dq_lock, total_calls_allowed, cpc, dq_gap>>
  /\ UNCHANGED outsideDeque

\* No deque limiter is in use.
DequeIdle ==
  /\ max_requests = 0
  /\ per_seconds = 0
  /\ requests_timestamps = <<>>
  /\ dq_lock = 0
  /\ total_calls_allowed = 0
  /\ cpc = [c \in Callers |-> "idle"]
  /\ sleep_left = 0
  /\ dq_admitted = <<>>
  /\ dq_gap = NoGap

\* ------------------------------------------ ArkApiClient._execute_request
\* What a call can end with.
NotEnded      == <<"running", 0>>
ReturnsNone   == <<"None", 0>>
Response(k)   == <<"response", k>>     \* what the k-th invocation returned

\* 2 ** n
RECURSIVE Pow2(_)
Pow2(n) == IF n = 0 THEN 1 ELSE 2 * Pow2(n - 1)

\* for attempt in range(retry_count)
ExecMore == e_attempt < retry_count

\* Variant: the sleep is not skipped after the last attempt.
ExecWillRetryAlways == e_attempt < retry_count

\* if attempt < retry_count - 1
ExecWillRetry == e_attempt < retry_count - 1

\* wait_time = 2 ** attempt
ExecWaitTime == Pow2(e_attempt)

\* _execute_request is called: last_exception = None, the loop starts.
ExecCall ==
  /\ epc = "idle"
  /\ epc' = "loop"
  /\ UNCHANGED <<retry_count, rate_limiter, e_attempt, e_calls, e_admissions,
                 e_sleeps, last_exception, e_return>>
  /\ UNCHANGED outsideExec

\* An iteration starts: if rate_limiter: rate_limiter.wait_if_needed().  The
\* limiter is the ark RateLimiter, whose call returns without raising once
\* it was constructed; only the fact that it was called is kept here.
ExecAdmit ==
  /\ epc = "loop"
  /\ ExecMore
  /\ e_admissions' = IF rate_limiter THEN e_admissions + 1 ELSE e_admissions
  /\ epc' = "call"
  /\ UNCHANGED <<retry_count, rate_limiter, e_attempt, e_calls, e_sleeps,
                 last_exception, e_return>>
  /\ UNCHANGED outsideExec

\* response = api_call_func(**params) comes back: return response.
ExecSucceed ==
  /\ epc = "call"
  /\ e_calls' = Append(e_calls, "ok")
  /\ e_return' = Response(Len(e_calls) + 1)
  /\ epc' = "returned"
  /\ UNCHANGED <<retry_count, rate_limiter, e_attempt, e_admissions, e_sleeps,
                 last_exception>>
  /\ UNCHANGED outsideExec

\* api_call_func raised an Exception: the except handler, with its sleep
\* when more attempts are left.
ExecFail ==
  /\ epc = "call"
  /\ e_calls' = Append(e_calls, "raise")
  /\ last_exception' = Len(e_calls) + 1
  /\ IF ExecWillRetry
       THEN /\ e_sleeps' = Append(e_sleeps, ExecWaitTime)
            /\ epc' = "sleep"
            /\ UNCHANGED e_attempt
       ELSE /\ e_attempt' = e_attempt + 1
            /\ epc' = "loop"
            /\ UNCHANGED e_sleeps
  /\ UNCHANGED <<retry_count, rate_limiter, e_admissions, e_return>>
  /\ UNCHANGED outsideExec

\* time.sleep(wait_time) is over: next iteration.
ExecWake ==
  /\ epc = "sleep"
  /\ e_attempt' = e_attempt + 1
  /\ epc' = "loop"
  /\ UNCHANGED <<retry_count, rate_limiter, e_calls, e_admissions, e_sleeps,
                 last_exception, e_return>>
  /\ UNCHANGED outsideExec

\* The loop is over without a return: return None.
ExecGiveUp ==
  /\ epc = "loop"
  /\ ~ExecMore
  /\ e_return' = ReturnsNone
  /\ epc' = "returned"
  /\ UNCHANGED <<retry_count, rate_limiter, e_attempt, e_calls, e_admissions,
                 e_sleeps, last_exception>>
  /\ UNCHANGED outsideExec

\* No _execute_request is running.
ExecIdle ==
  /\ retry_count = 0
  /\ rate_limiter = FALSE
  /\ epc = "idle"
  /\ e_attempt = 0
  /\ e_calls = <<>>
  /\ e_admissions = 0
  /\ e_sleeps = <<>>
  /\ last_exception = 0
  /\ e_return = NotEnded

\* ------------------------------------------------- BaseAPIClient._request
Json(k)   == <<"json", k>>       \* response.json() of the k-th request
Raises(x) == <<"raises", x>>     \* the call ends with exception x

\* What a request can do: come back with JSON, fail with a
\* requests.exceptions.RequestException (connection, timeout, HTTP status),
\* or fail with an exception that is none (what json() raises on a body that
\* is no JSON is a plain ValueError in older versions of requests).
RequestOutcomes == {"ok", "request_exception", "other"}

\* for attempt in range(self.max_retries)
ReqMore == b_attempt < max_retries

\* Variant: the last failed attempt sleeps as well instead of re-raising.
ReqWillRetryAlways == b_attempt < max_retries

\* if attempt < self.max_retries - 1
ReqWillRetry == b_attempt < max_retries - 1

\* self.retry_delay * (2 ** attempt)
ReqWaitTime == retry_delay * Pow2(b_attempt)

\* _request is called: the url is built from self.base_url, which raises
\* AttributeError when base_url is None.
ReqCall ==
  /\ bpc = "idle"
  /\ IF base_url
       THEN bpc' = "loop" /\ UNCHANGED b_end
       ELSE bpc' = "raised" /\ b_end' = Raises("AttributeError")
  /\ UNCHANGED <<max_retries, retry_delay, b_attempt, b_calls, b_sleeps, base_url>>
  /\ UNCHANGED outsideRequest

\* An iteration starts: self.session.request(...) is sent.
ReqSend ==
  /\ bpc = "loop"
  /\ ReqMore
  /\ bpc' = "request"
  /\ UNCHANGED <<max_retries, retry_delay, b_attempt, b_calls, b_sleeps, b_end, base_url>>
  /\ UNCHANGED outsideRequest

\* The request came back, raise_for_status passed: return response.json().
ReqSucceed ==
  /\ bpc = "request"
  /\ b_calls' = Append(b_calls, "ok")
  /\ b_end' = Json(Len(b_calls) + 1)
  /\ bpc' = "returned"
  /\ UNCHANGED <<max_retries, retry_delay, b_attempt, b_sleeps, base_url>>
  /\ UNCHANGED outsideRequest

\* The try body raised.  A RequestException is handled: sleep (time.sleep
\* raises ValueError on a negative argument) or, on the last attempt,
\* re-raise; any other exception leaves _request at once.
ReqFail(kind) ==
  /\ bpc = "request"
  /\ b_calls' = Append(b_calls, kind)
  /\ IF kind = "other"
       THEN /\ bpc' = "raised"
            /\ b_end' = Raises(<<kind, Len(b_calls) + 1>>)
            /\ UNCHANGED b_sleeps
       ELSE IF ~ReqWillRetry
         THEN /\ bpc' = "raised"
              /\ b_end' = Raises(<<kind, Len(b_calls) + 1>>)
              /\ UNCHANGED b_sleeps
         ELSE IF ReqWaitTime < 0
           THEN /\ bpc' = "raised"
                /\ b_end' = Raises("ValueError")
                /\ UNCHANGED b_sleeps
           ELSE /\ bpc' = "sleep"
                /\ b_sleeps' = Append(b_sleeps, ReqWaitTime)
                /\ UNCHANGED b_end
  /\ UNCHANGED <<max_retries, retry_delay, b_attempt, base_url>>
  /\ UNCHANGED outsideRequest

\* time.sleep(...) is over: next iteration.
ReqWake ==
  /\ bpc = "sleep"
  /\ b_attempt' = b_attempt + 1
  /\ bpc' = "loop"
  /\ UNCHANGED <<max_retries, retry_delay, b_calls, b_sleeps, b_end, base_url>>
  /\ UNCHANGED outsideRequest

\* The loop is over without a return or a raise: return None.
ReqGiveUp ==
  /\ bpc = "loop"
  /\ ~ReqMore
  /\ b_end' = ReturnsNone
  /\ bpc' = "returned"
  /\ UNCHANGED <<max_retries, retry_delay, b_attempt, b_calls, b_sleeps, base_url>>
  /\ UNCHANGED outsideRequest

\* No _request is running.
RequestIdle ==
  /\ max_retries = 0
  /\ retry_delay = 0
  /\ bpc = "idle"
  /\ b_attempt = 0
  /\ b_calls = <<>>
  /\ b_sleeps = <<>>
  /\ b_end = NotEnded
  /\ base_url = FALSE

ClientsIdle == ExecIdle /\ RequestIdle

\* ------------------------------------------------------------------ system
\* Task data: two values, so that a list can repeat an item.
TaskData == {1, 2}

\* The lists of at most MaxTasks items.  Task data are opaque to the code
\* (only passed on and compared), so a list is taken to start with item 1.
TaskLists == {t \in UNION {[1..n -> TaskData] : n \in 0..MaxTasks} :
                 t = <<>> \/ t[1] = 1}

Configs == [max_workers : 0..MaxWorkers,
            max_retries : 0..MaxRetries,
            rate_limit_per_minute : 0..MaxRate,
            rate_limit_window : 0..MaxWindow]

NoReport == [results |-> <<>>, stats |-> [total_tasks |-> 0 - 1],
             successful_results |-> <<>>, failed_tasks |-> <<>>]

BatchInit ==
  /\ tasks \in TaskLists
  /\ config \in Configs
  /\ opc = "idle"
  /\ submitted = 0
  /\ pc = [i \in Idx |-> "new"]
  /\ attempt = [i \in Idx |-> 0]
  /\ result = [i \in Idx |-> NewResult(i)]
  /\ outcomes = [i \in Idx |-> <<>>]
  /\ future = [i \in Idx |-> "pending"]
  /\ finished = {}
  /\ waiter = <<>>
  /\ yielded = {}
  /\ all_results = <<>>
  /\ total_tasks = 0
  /\ completed_tasks = 0
  /\ failed_tasks = 0
  /\ requests_times = <<>>
  /\ total_api_calls = 0
  /\ lock = 0
  /\ wait_time = 0
  /\ waited = FALSE
  /\ admitted = <<>>
  /\ gap = NoGap
  /\ report = NoReport
  /\ completion = <<>>
  /\ sleeps = [i \in Idx |-> 0]

Init == BatchInit /\ RunnerIdle /\ DequeIdle /\ ClientsIdle

Next ==
  \/ CallEmpty
  \/ CallInvalid
  \/ CallStart
  \/ Submit
  \/ AsCompleted
  \/ \E i \in Idx : CollectFinished(i)
  \/ CollectWaited
  \/ Return
  \/ \E i \in Idx : Dequeue(i)
  \/ \E i \in Idx : StartAttempt(i)
  \/ \E i \in Idx : WakeUp(i)
  \/ \E i \in Idx : Invoke(i)
  \/ \E i \in Idx : Succeed(i)
  \/ \E i \in Idx, kind \in {"raise", "late"}, fault \in BOOLEAN : Fail(i, kind, fault)
  \/ \E i \in Idx : Backoff(i)
  \/ \E i \in Idx : Exhaust(i)
  \/ \E i \in Idx : Complete(i)
  \/ Tick

Spec == Init /\ [][Next]_vars

\* Threads are scheduled, sleeps end and task_func comes back: a step that
\* can be taken is taken in the end.
FairSpec == Spec /\ WF_vars(Next)

\* A batch called after an earlier batch of the same process has returned:
\* the earlier call's report, limiter and tracker still hold their last values
\* (one task, admitted and done at the first attempt).
EarlierReport ==
  LET r == [success |-> TRUE, data |-> TaskValue(1, 1), error |-> NoErr,
            attempts |-> 1, task_data |-> 1, fut |-> 1,
            execution_time |-> ExecutionTime(1)]
  IN [results |-> <<r>>,
      stats |-> [total_tasks |-> 1, completed_tasks |-> 1, failed_tasks |-> 0,
                 success_rate |-> 100, elapsed_time |-> 1, tasks_per_second |-> 1],
      successful_results |-> <<r.data>>,
      failed_tasks |-> <<>>]

SecondConfigs == {c \in Configs : /\ c.max_workers \in {0, MaxWorkers}
                                  /\ c.max_retries = MaxRetries
                                  /\ c.rate_limit_per_minute = 1
                                  /\ c.rate_limit_window = MaxWindow}

SecondInit ==
  /\ tasks \in TaskLists
  /\ config \in SecondConfigs
  /\ opc = "idle"
  /\ submitted = 0
  /\ pc = [i \in Idx |-> "new"]
  /\ attempt = [i \in Idx |-> 0]
  /\ result = [i \in Idx |-> NewResult(i)]
  /\ outcomes = [i \in Idx |-> <<>>]
  /\ future = [i \in Idx |-> "pending"]
  /\ finished = {}
  /\ waiter = <<>>
  /\ yielded = {}
  /\ all_results = EarlierReport.results
  /\ total_tasks = 1
  /\ completed_tasks = 1
  /\ failed_tasks = 0
  /\ requests_times = <<0>>
  /\ total_api_calls = 1
  /\ lock = 0
  /\ wait_time = 0
  /\ waited = FALSE
  /\ admitted = <<>>
  /\ gap = NoGap
  /\ report = EarlierReport
  /\ completion = <<>>
  /\ sleeps = [i \in Idx |-> 0]
  /\ RunnerIdle
  /\ DequeIdle
  /\ ClientsIdle

SecondBatchSpec == SecondInit /\ [][Next]_vars

\* run_concurrently alone: parallel_batch_processor is not called.
TaskArgs == [kind : {"tuple", "dict", "other"}, v : TaskData]

TaskArgLists == UNION {[1..n -> TaskArgs] : n \in 0..MaxTasks}

BatchIdle ==
  /\ tasks = <<>>
  /\ config = [max_workers |-> 0, max_retries |-> 0, rate_limit_per_minute |-> 0,
               rate_limit_window |-> 0]
  /\ opc = "idle"
  /\ submitted = 0
  /\ pc = <<>>
  /\ attempt = <<>>
  /\ result = <<>>
  /\ outcomes = <<>>
  /\ future = <<>>
  /\ finished = {}
  /\ waiter = <<>>
  /\ yielded = {}
  /\ all_results = <<>>
  /\ total_tasks = 0
  /\ completed_tasks = 0
  /\ failed_tasks = 0
  /\ requests_times = <<>>
  /\ total_api_calls = 0
  /\ lock = 0
  /\ wait_time = 0
  /\ waited = FALSE
  /\ admitted = <<>>
  /\ gap = NoGap
  /\ report = NoReport
  /\ completion = <<>>
  /\ sleeps = [i \in Idx |-> 0]

RunnerInit ==
  /\ tasks_data \in TaskArgLists
  /\ max_workers \in {<<>>} \cup {<<n>> : n \in 0..MaxWorkers}
  /\ show_progress \in BOOLEAN
  /\ rpc = "idle"
  /\ results = <<>>
  /\ progress_tracker = <<>>
  /\ nsubmitted = 0
  /\ work = [i \in RIdx |-> "new"]
  /\ futures = [i \in RIdx |-> PendingFuture]
  /\ done_first = {}
  /\ order = <<>>
  /\ seen = {}
  /\ BatchIdle
  /\ DequeIdle
  /\ ClientsIdle

RunnerNext ==
  \/ RunEmpty
  \/ RunInvalid
  \/ RunStart
  \/ RunSubmit
  \/ \E i \in RIdx : RunTake(i)
  \/ \E i \in RIdx, raises \in BOOLEAN : RunFinish(i, raises)
  \/ RunAsCompleted
  \/ \E i \in RIdx : RunCollectFinished(i)
  \/ RunCollectWaited
  \/ RunReturn

RunnerSpec == RunnerInit /\ [][RunnerNext]_vars

\* One deque limiter shared by a few threads, nothing else running.  The
\* constructor stores whatever it is given.
DequeStart ==
  /\ max_requests \in (0 - 1)..MaxRate
  /\ per_seconds \in (0 - 1)..MaxWindow
  /\ requests_timestamps = <<>>
  /\ dq_lock = 0
  /\ total_calls_allowed = 0
  /\ cpc = [c \in Callers |-> "idle"]
  /\ sleep_left = 0
  /\ dq_admitted = <<>>
  /\ dq_gap = NoGap

DequeInit == DequeStart /\ BatchIdle /\ RunnerIdle /\ ClientsIdle

DequeNext ==
  \/ \E c \in Callers : DqCall(c)
  \/ \E c \in Callers : DqEnter(c)
  \/ \E c \in Callers : DqWake(c)
  \/ \E c \in Callers : DqAppend(c)
  \/ DqTick

DequeSpec == DequeInit /\ [][DequeNext]_vars

\* One call of ArkApiClient._execute_request, nothing else running.
ExecInit ==
  /\ retry_count \in (0 - 1)..MaxCount
  /\ rate_limiter \in BOOLEAN
  /\ epc = "idle"
  /\ e_attempt = 0
  /\ e_calls = <<>>
  /\ e_admissions = 0
  /\ e_sleeps = <<>>
  /\ last_exception = 0
  /\ e_return = NotEnded
  /\ BatchIdle
  /\ RunnerIdle
  /\ DequeIdle
  /\ RequestIdle

ExecNext ==
  \/ ExecCall
  \/ ExecAdmit
  \/ ExecSucceed
  \/ ExecFail
  \/ ExecWake
  \/ ExecGiveUp

ExecSpec == ExecInit /\ [][ExecNext]_vars

\* One call of BaseAPIClient._request, nothing else running.
RequestInit ==
  /\ max_retries \in (0 - 1)..MaxCount
  /\ retry_delay \in (0 - 1)..MaxDelay
  /\ base_url \in BOOLEAN
  /\ bpc = "idle"
  /\ b_attempt = 0
  /\ b_calls = <<>>
  /\ b_sleeps = <<>>
  /\ b_end = NotEnded
  /\ BatchIdle
  /\ RunnerIdle
  /\ DequeIdle
  /\ ExecIdle

RequestNext ==
  \/ ReqCall
  \/ ReqSend
  \/ ReqSucceed
  \/ \E kind \in RequestOutcomes \ {"ok"} : ReqFail(kind)
  \/ ReqWake
  \/ ReqGiveUp

RequestSpec == RequestInit /\ [][RequestNext]_vars

\* Both limiters at work side by side: a batch of MaxTasks tasks on
\* MaxWorkers threads shares one ark limiter of one request per window,
\* while the callers of a deque limiter of one request per window run.
LimitersInit ==
  /\ BatchInit
  /\ tasks = [k \in 1..MaxTasks |-> 1]
  /\ config = [max_workers |-> MaxWorkers, max_retries |-> 1,
               rate_limit_per_minute |-> 1, rate_limit_window |-> MaxWindow]
  /\ RunnerIdle
  /\ ClientsIdle
  /\ DequeStart
  /\ max_requests = 1
  /\ per_seconds = MaxWindow

LimitersNext ==
  \/ CallStart
  \/ Submit
  \/ AsCompleted
  \/ \E i \in Idx : CollectFinished(i)
  \/ CollectWaited
  \/ Return
  \/ \E i \in Idx : Dequeue(i)
  \/ \E i \in Idx : StartAttempt(i)
  \/ \E i \in Idx : WakeUp(i)
  \/ \E i \in Idx : Invoke(i)
  \/ \E i \in Idx : Succeed(i)
  \/ \E i \in Idx : Exhaust(i)
  \/ \E i \in Idx : Complete(i)
  \/ \E i \in Idx : Fail(i, "raise", FALSE)
  \/ Tick
  \/ \E c \in Callers : DqCall(c)
  \/ \E c \in Callers : DqEnter(c)
  \/ \E c \in Callers : DqWake(c)
  \/ \E c \in Callers : DqAppend(c)
  \/ DqTick

LimitersSpec == LimitersInit /\ [][LimitersNext]_vars

\* Time advances, a sleeper wakes and goes on, and the lock is granted
\* fairly: a thread that keeps finding the lock free now and then gets it.
DequeFairSpec ==
  /\ DequeSpec
  /\ WF_vars(DqTick)
  /\ \A c \in Callers : /\ SF_vars(DqEnter(c))
                        /\ WF_vars(DqWake(c))
                        /\ WF_vars(DqAppend(c))

\* ================================================================ claims
Returned == opc = "done"

Results == report.results

\* The futures whose records the report lists, position by position.
Futs == [k \in 1..Len(Results) |-> Results[k].fut]

\* No invocation of task_func for task i returned in time.
AllFail(i) == \A j \in 1..Len(outcomes[i]) : outcomes[i][j] # "ok"

\* An exception left execute_single_task_with_retry for task i.
Escaped(i) == future[i] = "exception"

InProgress == {i \in Idx : pc[i] = "running"}

C2_OneRecordPerInput ==
  Returned =>
     /\ Len(Results) = Len(tasks)
     /\ \A i \in Idx : Cardinality({k \in 1..Len(Results) : Futs[k] = i}) = 1
     /\ \A k \in 1..Len(Results) : Results[k].success \in BOOLEAN

\* A report over a success and a task that raised and then timed out.
C2_Witness ==
  /\ Returned
  /\ \E i, j \in Idx : /\ outcomes[i] = <<"ok">>
                       /\ outcomes[j] = <<"raise", "late">>

\* C3: with a configuration the constructors accept, no failure of task_func
\* makes parallel_batch_processor raise; a task none of whose invocations
\* succeeded is reported as a record with success == false.
C3_NoPropagation ==
  (tasks = <<>> \/ ConstructorsAccept) =>
     /\ opc # "raised"
     /\ Returned =>
          \A i \in Idx : (AllFail(i) /\ outcomes[i] # <<>>) =>
             \E k \in 1..Len(Results) : Futs[k] = i /\ ~Results[k].success

\* A report over an exception that escaped the handler and an exhausted task.
C3_Witness ==
  /\ Returned
  /\ \E i, j \in Idx : /\ Escaped(i)
                       /\ ~Escaped(j)
                       /\ outcomes[j] = <<"late", "raise">>

\* C4: the i-th logged admission (i > max_requests) is at least
\* window_seconds later than the (i - max_requests)-th.
C4_WindowGap == gap # NoGap => gap >= config.rate_limit_window

\* An admission beyond the first max_requests, with the window full again.
C4_Witness ==
  /\ gap # NoGap
  /\ config.rate_limit_per_minute = MaxRate
  /\ Len(requests_times) = config.rate_limit_per_minute

\* C5: never more than config.max_workers invocations of task_func at once.
C5_ConcurrencyBound == Cardinality(InProgress) <= config.max_workers

\* All the pool's threads are inside task_func while another task is queued.
C5_Witness ==
  /\ Cardinality(InProgress) = config.max_workers
  /\ \E j \in Idx : pc[j] = "queued"

\* C6: the statistics of a non-empty run are read after every task has
\* finished, with completed_tasks + failed_tasks == total_tasks == len(tasks).
C6_FinalStats ==
  (Returned /\ tasks # <<>>) =>
     /\ \A i \in Idx : pc[i] = "done" /\ future[i] # "pending"
     /\ report.stats.completed_tasks + report.stats.failed_tasks
          = report.stats.total_tasks
     /\ report.stats.total_tasks = Len(tasks)

\* Statistics over a success and a failure.
C6_Witness ==
  /\ Returned
  /\ report.stats.completed_tasks = 1
  /\ report.stats.failed_tasks = 1

\* C7: completed_tasks + failed_tasks <= total_tasks in every state, and the
\* counters only grow, so that a read of one counter after the other cannot
\* see a sum above total_tasks either.
C7_CountersBounded ==
  /\ [](completed_tasks + failed_tasks <= total_tasks)
  /\ [][/\ completed_tasks' >= completed_tasks
        /\ failed_tasks' >= failed_tasks]_vars

\* The orchestrator counted an escaped exception and the sum reached the total.
C7_Witness ==
  /\ opc = "collect"
  /\ completed_tasks + failed_tasks = total_tasks
  /\ \E k \in 1..Len(all_results) : all_results[k].error = ErrorOf("uncaught", 0)
  /\ completed_tasks > 0

FirstCallSucceeds == \A i \in Idx : outcomes[i] # <<>> /\ outcomes[i][1] = "ok"

\* C8: when the first call succeeds for every input and max_retries >= 1,
\* every record has success and attempts == 1, task_func was invoked once
\* per input and failed_tasks == 0.
C8_FirstCallSuccess ==
  (Returned /\ config.max_retries >= 1 /\ FirstCallSucceeds) =>
     /\ \A k \in 1..Len(Results) : Results[k].success /\ Results[k].attempts = 1
     /\ \A i \in Idx : Len(outcomes[i]) = 1
     /\ report.stats.failed_tasks = 0

\* Two inputs, both succeeding at once, with retries allowed.
C8_Witness ==
  /\ Returned
  /\ Len(tasks) = 2
  /\ config.max_retries = MaxRetries
  /\ FirstCallSucceeds

\* Task i failed on its first k invocations and succeeded on the next.
FailsThenSucceeds(i, k) ==
  /\ Len(outcomes[i]) = k + 1
  /\ \A j \in 1..k : outcomes[i][j] # "ok"
  /\ outcomes[i][k + 1] = "ok"

\* C9: for 0 <= k < max_retries, a task that fails k times and then succeeds
\* has success, attempts == k + 1 and the data of invocation k + 1.
C9_SuccessAfterFailures ==
  Returned =>
     \A n \in 1..Len(Results) : \A k \in 0..(config.max_retries - 1) :
        FailsThenSucceeds(Futs[n], k) =>
           /\ Results[n].success
           /\ Results[n].attempts = k + 1
           /\ Results[n].data = TaskValue(tasks[Futs[n]], k + 1)

\* A task that succeeded on its second invocation.
C9_Witness ==
  /\ Returned
  /\ \E i \in Idx : FailsThenSucceeds(i, 1)

C11_AttemptsCounted ==
  (Returned /\ config.max_retries >= 1) =>
     \A n \in 1..Len(Results) :
        /\ 1 <= Results[n].attempts
        /\ Results[n].attempts <= config.max_retries
        /\ Results[n].attempts = Len(outcomes[Futs[n]])

\* C12: an empty task list returns at once the empty report: nothing is
\* constructed (so no constructor can raise), nothing submitted or admitted.
C12_EmptyInput ==
  tasks = <<>> =>
     /\ opc \in {"idle", "done"}
     /\ submitted = 0 /\ total_api_calls = 0 /\ total_tasks = 0
     /\ Returned =>
          /\ report.results = <<>>
          /\ report.stats = [total_tasks |-> 0, completed_tasks |-> 0, failed_tasks |-> 0]
          /\ report.successful_results = <<>>
          /\ report.failed_tasks = <<>>

\* The empty list returned although the limiter could not have been built.
C12_Witness ==
  /\ Returned
  /\ tasks = <<>>
  /\ config.rate_limit_per_minute = 0

\* The configurations the specification calls valid.
ConfigValid ==
  /\ config.max_workers > 0
  /\ config.rate_limit_per_minute > 0
  /\ config.rate_limit_window > 0
  /\ config.max_retries >= 0

\* C13 as claimed: with a configuration that is not valid,
\* parallel_batch_processor never returns a report, whatever the task list.
C13_InvalidConfigRejected == ~ConfigValid => ~Returned

\* C14: a RateLimiter with max_requests <= 0 or window_seconds <= 0 is never
\* constructed (the call ends with the constructor's exception, nothing is
\* admitted); on a constructed limiter wait_if_needed has nothing to raise:
\* the list it indexes is not empty and it never sleeps a negative time.
C14_LimiterNeverRaises ==
  /\ (tasks # <<>> /\ (config.rate_limit_per_minute <= 0 \/ config.rate_limit_window <= 0)) =>
        /\ opc \in {"idle", "raised"}
        /\ total_api_calls = 0
  /\ opc \in {"submit", "collect"} =>
        /\ ~IndexError(Purge(requests_times))
        /\ wait_time >= 0

\* The limiter's constructor alone refused the configuration.
C14_Witness ==
  /\ opc = "raised"
  /\ config.rate_limit_per_minute = 0
  /\ config.rate_limit_window > 0
  /\ config.max_workers > 0

\* The step in which a call of wait_if_needed passes its last purge.
LastPurge == \E i \in Idx : pc[i] # "rl_append" /\ pc'[i] = "rl_append"

\* The step in which a call of wait_if_needed appends and returns.
Returns == total_api_calls' = total_api_calls + 1

Young(times) == \A k \in 1..Len(times) : times[k] < config.rate_limit_window

\* C15 as claimed: when wait_if_needed returns, the list holds at most
\* max_requests timestamps and every one of them is younger than the window.
C15_YoungAtReturn ==
  [][Returns => /\ Len(requests_times') <= config.rate_limit_per_minute
                /\ Young(requests_times')]_vars

\* C15 amended: the list never holds more than max_requests timestamps; at
\* the last purge of a call (the only purge, or the one after the single
\* sleep) fewer than max_requests timestamps are kept, all younger than the
\* window at that clock reading.
C15_BoundedAtReturn ==
  /\ [](opc \in {"submit", "collect"} =>
          Len(requests_times) <= config.rate_limit_per_minute)
  /\ [][LastPurge => /\ Len(requests_times') < config.rate_limit_per_minute
                     /\ Young(requests_times')]_vars
  /\ [][Returns => Len(requests_times') <= config.rate_limit_per_minute]_vars

\* A call that had to sleep has returned, with a limit above 1.
C15_Witness ==
  /\ lock = 0
  /\ waited
  /\ config.rate_limit_per_minute > 1
  /\ total_api_calls > config.rate_limit_per_minute

\* The positions of the report that hold a record for future i.
RecordsOf(i) == {n \in 1..Len(Results) : Futs[n] = i}

\* The step in which the collecting loop handles future i.
Yields(i) == i \notin yielded /\ i \in yielded'

\* C16: an exception that escapes execute_single_task_with_retry for an input
\* becomes one failure record for that input (success false, error set, its
\* task_data), failed_tasks goes up by exactly one for it (the worker had not
\* counted it), and every other input's record is the one its worker returned.
C16_EscapedBecomesFailure ==
  /\ [](Returned =>
          /\ \A i \in Idx : Escaped(i) =>
                /\ Cardinality(RecordsOf(i)) = 1
                /\ \A n \in RecordsOf(i) :
                      /\ ~Results[n].success
                      /\ Results[n].error # NoErr
                      /\ Results[n].data = None
                      /\ Results[n].task_data = tasks[i]
          /\ \A j \in Idx : ~Escaped(j) =>
                /\ Cardinality(RecordsOf(j)) = 1
                /\ \A n \in RecordsOf(j) : Results[n] = result[j]
          /\ report.stats.failed_tasks =
                Cardinality({n \in 1..Len(Results) : ~Results[n].success}))
  /\ [][\A i \in Idx : (Yields(i) /\ Escaped(i) /\ opc' = "collect") =>
           /\ failed_tasks' = failed_tasks + 1
           /\ completed_tasks' = completed_tasks]_vars
  /\ [][\A i \in Idx : (pc[i] # "raising" /\ pc'[i] = "raising") \/
                        (~Escaped(i) /\ future'[i] = "exception") =>
           UNCHANGED <<failed_tasks, completed_tasks>>]_vars

\* The first input's exception escaped, the second input succeeded.
C16_Witness ==
  /\ Returned
  /\ Len(tasks) = 2
  /\ Escaped(1)
  /\ ~Escaped(2)
  /\ result[2].success

\* The step in which an invocation of task_func for task i ends as kind.
Ends(i, kind) ==
  /\ Len(outcomes'[i]) = Len(outcomes[i]) + 1
  /\ outcomes'[i][Len(outcomes'[i])] = kind

\* What the except handler leaves behind for an attempt that ended as kind.
Handled(i, kind) ==
  /\ pc[i] = "running"
  /\ ~result'[i].success
  /\ result'[i].data = None
  /\ result'[i].error = ErrorOf(kind, Len(outcomes'[i]))
  /\ result'[i].attempts = Len(outcomes'[i])
  /\ UNCHANGED <<completed_tasks, failed_tasks>>
  /\ \/ pc'[i] = "raising"
     \/ /\ Len(outcomes'[i]) < config.max_retries
        /\ pc'[i] = "backoff"
        /\ attempt'[i] = attempt[i]
     \/ /\ Len(outcomes'[i]) = config.max_retries
        /\ pc'[i] = "loop"
        /\ attempt'[i] = config.max_retries

\* C17: an invocation that returns too late is handled as one that raises:
\* it is only judged once task_func has returned, its value is discarded,
\* it counts as an attempt, a backoff and another attempt follow if attempts
\* remain, and otherwise the record is a failure with the timeout error.
C17_LateIsFailure ==
  /\ [][\A i \in Idx : \A kind \in {"late", "raise"} :
          Ends(i, kind) => Handled(i, kind)]_vars
  /\ [](\A i \in Idx : pc[i] = "backoff" =>
          /\ outcomes[i] # <<>>
          /\ outcomes[i][Len(outcomes[i])] \in {"late", "raise"}
          /\ Len(outcomes[i]) < config.max_retries)
  /\ [](Returned =>
          \A i \in Idx :
             (/\ ~Escaped(i)
              /\ outcomes[i] # <<>>
              /\ outcomes[i][Len(outcomes[i])] = "late") =>
                /\ Len(outcomes[i]) = config.max_retries
                /\ \A n \in RecordsOf(i) :
                      /\ ~Results[n].success
                      /\ Results[n].data = None
                      /\ Results[n].error = ErrorOf("late", config.max_retries)
                      /\ Results[n].attempts = config.max_retries)

\* Both attempts of the first input returned too late; the report lists it
\* as a failure.
C17_Witness ==
  /\ Returned
  /\ tasks # <<>>
  /\ outcomes[1] = <<"late", "late">>
  /\ ~Escaped(1)

\* What task_func produced for the i-th input: the value its worker returned
\* if it succeeded, else None.
Produced(i) == IF ~Escaped(i) /\ result[i].success THEN result[i].data ELSE None

\* C18 as claimed: simple_parallel_map returns a list as long as the task
\* list whose i-th element is the value task_func produced for tasks[i] if
\* that input succeeded and None if it failed, also for repeated items.
C18_MapFollowsInput ==
  (Returned /\ config.max_retries = 1) =>
     /\ Len(simple_parallel_map) = Len(tasks)
     /\ \A i \in Idx : simple_parallel_map[i] = Produced(i)

\* What run_concurrently owes position i: the value task_function returned
\* for tasks_data[i], or the exception it raised.
Owed(i) ==
  IF futures[i].state = "result"
    THEN Cell("value", TaskValue(tasks_data[i].v, i))
    ELSE Cell("exception", ErrorOf("raise", i))

\* C19: whatever the completion order, run_concurrently returns a list as
\* long as tasks_data whose position i holds what task_function returned or
\* raised for tasks_data[i]; the call itself raises only when the executor
\* refuses max_workers, before any task runs; an empty tasks_data returns []
\* and nothing is submitted.
C19_ResultsByIndex ==
  /\ rpc = "done" =>
        /\ Len(results) = Len(tasks_data)
        /\ \A i \in RIdx :
              /\ futures[i].call = Bind(tasks_data[i])
              /\ results[i] = Owed(i)
  /\ rpc = "raised" =>
        /\ ~ExecutorAccepts
        /\ \A i \in RIdx : work[i] = "new"
  /\ tasks_data = <<>> =>
        /\ rpc \in {"idle", "done"}
        /\ nsubmitted = 0
        /\ rpc = "done" => results = <<>>

\* Two tasks, the first raised and the second returned a value.
C19_Witness ==
  /\ rpc = "done"
  /\ Len(tasks_data) = 2
  /\ futures[1].state = "exception"
  /\ futures[2].state = "result"

\* The orchestrator's phase: Idle 0, Running 1, Completed 2.
Phase(o) == IF o = "idle" THEN 0 ELSE IF o = "done" THEN 2 ELSE 1

\* C20: with a valid configuration and a task_func that always comes back,
\* every run ends by returning a report; the orchestrator's phase only
\* advances (Idle, Running, Completed), it never ends by raising, and once
\* the report is returned nothing moves any more.
C20_Terminates ==
  /\ ConfigValid ~> Returned
  /\ [](ConfigValid => opc # "raised")
  /\ [][Phase(opc') >= Phase(opc)]_vars
  /\ [][~Returned]_vars

\* A run that went through the pool and retried has returned its report.
C20_Witness ==
  /\ Returned
  /\ Len(tasks) = 2
  /\ \E i \in Idx : Len(outcomes[i]) = 2

\* The record the report holds for future i.
RecordOf(i) == Results[CHOOSE n \in 1..Len(Results) : Futs[n] = i]

\* The data of the successful records, in the order given by the sequence
\* of futures fs.
DataInOrder(fs) ==
  LET ok == SelectSeq(fs, LAMBDA i : RecordOf(i).success)
  IN [k \in 1..Len(ok) |-> RecordOf(ok[k]).data]

\* C22 as claimed: successful_results lists the data of the successful
\* results in the order in which their tasks completed, failed_tasks is the
\* sequence of failed results, and the two lengths add up to len(tasks).
C22_CompletionOrder ==
  (Returned /\ tasks # <<>>) =>
     /\ report.successful_results = DataInOrder(completion)
     /\ report.failed_tasks = SelectSeq(Results, LAMBDA r : ~r.success)
     /\ Len(report.successful_results) + Len(report.failed_tasks) = Len(tasks)

\* C22 amended: successful_results lists the data of the successful results
\* in the order of results (the order in which as_completed yielded the
\* futures), failed_tasks is the sequence of failed results in that order,
\* and the two lengths add up to len(tasks).
C22_YieldOrder ==
  (Returned /\ tasks # <<>>) =>
     /\ report.successful_results = DataInOrder(Futs)
     /\ report.failed_tasks = SelectSeq(Results, LAMBDA r : ~r.success)
     /\ Len(report.successful_results) + Len(report.failed_tasks) = Len(tasks)
     /\ \A i \in Idx : \E k \in 1..Len(completion) : completion[k] = i

\* Two tasks finished in one order and were yielded in the other; one of
\* them succeeded, one failed.
C22_Witness ==
  /\ Returned
  /\ Len(tasks) = 2
  /\ Futs # completion
  /\ Len(report.successful_results) = 1
  /\ Len(report.failed_tasks) = 1

\* C23: in every record of a report, data is the value the successful
\* (the last) invocation returned when success is true, and None when success
\* is false, whatever earlier or late invocations returned.
C23_DataIffSuccess ==
  Returned =>
     \A n \in 1..Len(Results) :
        LET r == Results[n]
            i == Futs[n]
        IN /\ r.success =>
                /\ ~Escaped(i)
                /\ outcomes[i] # <<>>
                /\ outcomes[i][Len(outcomes[i])] = "ok"
                /\ r.data = TaskValue(tasks[i], Len(outcomes[i]))
           /\ ~r.success => r.data = None

\* One task succeeded after an invocation that returned too late, the other
\* failed with both invocations returning too late.
C23_Witness ==
  /\ Returned
  /\ Len(tasks) = 2
  /\ outcomes[1] = <<"late", "ok">>
  /\ outcomes[2] = <<"late", "late">>
  /\ ~Escaped(2)

\* f[1] + ... + f[n]
RECURSIVE SumTo(_, _)
SumTo(f, n) == IF n = 0 THEN 0 ELSE f[n] + SumTo(f, n - 1)

\* All invocations of task_func made so far, over all inputs.
Invocations == SumTo([i \in Idx |-> Len(outcomes[i])], Len(tasks))

\* C28 as claimed: at the end of a batch the limiter's total_api_calls equals
\* the number of task_func invocations and the sum of attempts over all
\* results.
C28_CallsEqualAttempts ==
  (Returned /\ tasks # <<>>) =>
     /\ total_api_calls = Invocations
     /\ total_api_calls = SumTo([n \in 1..Len(Results) |-> Results[n].attempts],
                                Len(Results))

\* Task i is inside an attempt: asking for admission or inside task_func.
InAttempt(i) == pc[i] \in {"rl_sleep", "rl_append", "running"}

\* The retry loop of task i is over.
Ended(i) ==
  \/ pc[i] \in {"returning", "raising", "done"}
  \/ pc[i] = "loop" /\ ~MoreAttempts(i)

\* C29: task_func is invoked at most max_retries times for an input, and
\* never again once an invocation has succeeded: "ok" can only be the last
\* outcome, and no attempt is under way after it.
C29_NoInvocationAfterSuccess ==
  \A i \in Idx :
     /\ Len(outcomes[i]) <= config.max_retries
     /\ \A k \in 1..(Len(outcomes[i]) - 1) : outcomes[i][k] # "ok"
     /\ InAttempt(i) =>
           /\ Len(outcomes[i]) < config.max_retries
           /\ \A k \in 1..Len(outcomes[i]) : outcomes[i][k] # "ok"

\* The first of two allowed attempts succeeded and the run is over.
C29_Witness ==
  /\ Returned
  /\ tasks # <<>>
  /\ config.max_retries = 2
  /\ outcomes[1] = <<"ok">>

\* C30: a backoff sleep follows every failed attempt that is not the last
\* allowed one, before the next admission request, and nothing else: during
\* the sleep after the k-th invocation it is the task's k-th sleep, an attempt
\* starts only after as many sleeps as invocations made, and a task that
\* ended after a >= 1 invocations has slept a - 1 times.
C30_SleepsBetweenAttempts ==
  \A i \in Idx :
     /\ pc[i] = "backoff" =>
           /\ sleeps[i] = Len(outcomes[i]) - 1
           /\ outcomes[i][Len(outcomes[i])] # "ok"
           /\ Len(outcomes[i]) < config.max_retries
     /\ (InAttempt(i) \/ (pc[i] = "loop" /\ MoreAttempts(i))) =>
           sleeps[i] = Len(outcomes[i])
     /\ (Ended(i) /\ outcomes[i] # <<>>) => sleeps[i] = Len(outcomes[i]) - 1
     /\ outcomes[i] = <<>> => sleeps[i] = 0

\* A task failed twice and ended: it slept once.
C30_Witness ==
  /\ Returned
  /\ tasks # <<>>
  /\ outcomes[1] = <<"raise", "raise">>
  /\ ~Escaped(1)
  /\ sleeps[1] = 1

\* The tasks whose worker has counted them as done or failed.
Counted(success) ==
  {i \in Idx : /\ pc[i] \in {"returning", "done"}
               /\ ~Escaped(i)
               /\ result[i].success = success}

\* C24: a batch called after another one starts with an empty limiter log
\* and all counters at zero, and from then on the limiter and the tracker
\* count this batch only: admissions are this batch's invocations, the log
\* holds no older timestamp, completed and failed are this batch's tasks.
C24_FreshPerBatch ==
  /\ (opc = "submit" /\ submitted = 0) =>
        /\ requests_times = <<>>
        /\ total_api_calls = 0
        /\ total_tasks = Len(tasks)
        /\ completed_tasks = 0
        /\ failed_tasks = 0
  /\ opc \in {"submit", "collect"} =>
        /\ total_api_calls = Invocations + Cardinality(InProgress)
        /\ Len(requests_times) <= total_api_calls
        /\ total_tasks = Len(tasks)
        /\ completed_tasks = Cardinality(Counted(TRUE))
        /\ failed_tasks = Cardinality(Counted(FALSE)) +
                          Cardinality({i \in yielded : Escaped(i)})
  /\ (Returned /\ tasks # <<>>) =>
        /\ report.stats.total_tasks = Len(tasks)
        /\ report.stats.completed_tasks + report.stats.failed_tasks = Len(tasks)
        /\ total_api_calls = Invocations

\* The second batch is running and has admitted a call, while the caller
\* still holds the first batch's report.
C24_Witness ==
  /\ opc = "collect"
  /\ report = EarlierReport
  /\ total_api_calls >= 1
  /\ completed_tasks >= 1

\* ------------------------------------------------- deque limiter claims

\* C25: after a call of wait_if_needed on the deque limiter has returned,
\* the timestamp log holds at most max_requests entries.
C25_LogWithinLimit ==
  (dq_lock = 0 /\ total_calls_allowed >= 1)
    => Len(requests_timestamps) <= max_requests

\* C26: on the deque limiter the i-th recorded admission (i > N) is at least
\* W after the (i-N)-th one, for any number of concurrent callers.
C26_RollingWindow == dq_gap # NoGap => dq_gap >= per_seconds

\* A call slept, appended without purging and returned, and an admission
\* N places earlier exists to compare with.
C26_Witness ==
  /\ dq_gap # NoGap
  /\ per_seconds > 0
  /\ dq_lock = 0
  /\ Len(requests_timestamps) > max_requests

\* C27: wait_if_needed of the deque limiter never raises, whatever
\* max_requests and per_seconds the limiter was constructed with.
C27_NeverRaises == \A c \in Callers : cpc[c] # "raised"

\* C21: every call of wait_if_needed eventually returns, given that time
\* advances and the lock is granted fairly.
C21_EveryCallReturns ==
  \A c \in Callers : (cpc[c] = "calling") ~> (cpc[c] = "idle")

\* ------------------------------------------------- records of the report

\* C31: for a task whose retry loop ran out, the error of its failure record
\* describes the failure of the last attempt, not of an earlier one.
C31_LastError ==
  (Returned /\ config.max_retries >= 1) =>
     \A n \in 1..Len(Results) :
        (~Results[n].success /\ ~Escaped(Futs[n])) =>
           /\ Len(outcomes[Futs[n]]) = config.max_retries
           /\ Results[n].error = <<outcomes[Futs[n]][config.max_retries],
                                   config.max_retries>>

\* A task failed twice, in two different ways, and its loop ran out.
C31_Witness ==
  /\ Returned
  /\ \E n \in 1..Len(Results) :
        /\ outcomes[Futs[n]] = <<"raise", "late">>
        /\ ~Escaped(Futs[n])
        /\ Results[n].error = <<"late", 2>>

\* C32: with max_retries == 0 task_func is never invoked and the limiter is
\* never asked for an admission; every input yields a failure record with
\* attempts == 0 and error None, and failed_tasks == total_tasks.
C32_ZeroRetries ==
  config.max_retries = 0 =>
     /\ Invocations = 0
     /\ total_api_calls = 0
     /\ requests_times = <<>>
     /\ \A i \in Idx : ~InAttempt(i)
     /\ Returned =>
          /\ Len(Results) = Len(tasks)
          /\ \A n \in 1..Len(Results) :
                /\ ~Results[n].success
                /\ Results[n].attempts = 0
                /\ Results[n].error = NoErr
          /\ report.stats.failed_tasks = report.stats.total_tasks
          /\ report.stats.total_tasks = Len(tasks)

\* A batch of two tasks was processed with max_retries == 0.
C32_Witness ==
  /\ Returned
  /\ config.max_retries = 0
  /\ Len(tasks) = 2
  /\ report.stats.failed_tasks = 2

\* C34 as claimed: every record of the report with success == true has
\* error None, also when the task succeeded after failed attempts.
C34_SuccessHasNoError ==
  Returned =>
     \A n \in 1..Len(Results) : Results[n].success => Results[n].error = NoErr

\* C35: the progress tracker is updated exactly once per input (by the
\* worker on success or after exhaustion, by the collecting loop when an
\* exception escaped the worker), so that in the report
\* stats.completed_tasks == len(successful_results) and
\* stats.failed_tasks == len(failed_tasks).
C35_OncePerInput ==
  /\ completed_tasks = Cardinality(Counted(TRUE))
  /\ failed_tasks = Cardinality(Counted(FALSE))
                      + Cardinality({i \in yielded : Escaped(i)})
  /\ Returned =>
       /\ report.stats.completed_tasks = Len(report.successful_results)
       /\ report.stats.failed_tasks = Len(report.failed_tasks)

\* A report over a success, and a failure that the collecting loop counted.
C35_Witness ==
  /\ Returned
  /\ Len(report.successful_results) = 1
  /\ Len(report.failed_tasks) = 1
  /\ \E i \in Idx : Escaped(i)

\* C37 as claimed: every record of the report, success or failure, carries
\* an execution_time for its final attempt (read for the inputs task_func
\* was invoked for at all).
C37_TimeInEveryRecord ==
  Returned =>
     \A n \in 1..Len(Results) :
        outcomes[Futs[n]] # <<>> =>
           Results[n].execution_time = ExecutionTime(Len(outcomes[Futs[n]]))

\* C36 as claimed: the stats of every report, the one for an empty task
\* list included, have the counters total_tasks, completed_tasks,
\* failed_tasks and the derived success_rate and tasks_per_second, with
\* success_rate == 0 when total_tasks == 0.
C36_SameStatsFields ==
  Returned =>
     /\ {"total_tasks", "completed_tasks", "failed_tasks",
         "success_rate", "tasks_per_second"} \subseteq DOMAIN report.stats
     /\ report.stats.total_tasks = 0 => report.stats.success_rate = 0

\* ------------------------------------------------- the limiters' lock

\* A caller inside wait_if_needed of the ark limiter, sleeping included,
\* holds its lock.
ArkHeld ==
  /\ \A i \in Idx : pc[i] \in {"rl_sleep", "rl_append"} => lock = i
  /\ lock # 0 => (lock \in Idx /\ pc[lock] \in {"rl_sleep", "rl_append"})

\* The same for the deque limiter.
DqHeld ==
  /\ \A c \in Callers : cpc[c] \in {"sleeping", "appending"} => dq_lock = c
  /\ dq_lock # 0 => (dq_lock \in Callers /\ cpc[dq_lock] \in {"sleeping", "appending"})

\* A log of ages, oldest first, is sorted by time.
Sorted(ts) == \A k \in 1..(Len(ts) - 1) : ts[k] >= ts[k + 1]

\* A step that is not the lock holder's leaves the ark limiter's log (but
\* for the passing of time), its counter and its lock alone; an admission is
\* counted one at a time, by the holder as it releases the lock.
ArkStep ==
  /\ (lock # 0 /\ pc'[lock] = pc[lock]) =>
        /\ lock' = lock
        /\ total_api_calls' = total_api_calls
        /\ requests_times' \in {requests_times, Age(requests_times)}
  /\ total_api_calls' # total_api_calls =>
        /\ total_api_calls' = total_api_calls + 1
        /\ lock # 0
        /\ lock' = 0

\* The same for the deque limiter.
DqStep ==
  /\ (dq_lock # 0 /\ cpc'[dq_lock] = cpc[dq_lock]) =>
        /\ dq_lock' = dq_lock
        /\ total_calls_allowed' = total_calls_allowed
        /\ requests_timestamps' \in {requests_timestamps, DqAge(requests_timestamps)}
  /\ total_calls_allowed' # total_calls_allowed =>
        /\ total_calls_allowed' = total_calls_allowed + 1
        /\ dq_lock # 0
        /\ dq_lock' = 0

\* C33: in both limiters the lock is held for the whole of wait_if_needed,
\* the sleep included: while one caller waits no other caller purges, is
\* admitted or changes the log, admissions are ordered by lock acquisition
\* and the log stays sorted by time.
C33_LockHeldThroughout ==
  /\ [](ArkHeld /\ DqHeld)
  /\ [](Sorted(requests_times) /\ Sorted(requests_timestamps))
  /\ [][ArkStep /\ DqStep]_vars

\* In each limiter one caller sleeps with the lock while another one is
\* waiting to get in.
C33_Witness ==
  /\ \E i, j \in Idx : pc[i] = "rl_sleep" /\ lock = i /\ pc[j] = "loop"
  /\ \E c, d \in Callers : cpc[c] = "sleeping" /\ dq_lock = c /\ cpc[d] = "calling"

\* ------------------------------------------------- the clients' retry loops

\* The invocations of api_call_func that raised.
ExecFailed == {k \in 1..Len(e_calls) : e_calls[k] = "raise"}

\* C38: _execute_request invokes api_call_func at most retry_count times,
\* asks the limiter, when given one, for one admission before each
\* invocation, returns the response of the first invocation that succeeds
\* and calls no more, sleeps 2**attempt after each failed attempt but the
\* last, and returns None after retry_count failures or for retry_count <= 0.
C38_ExecuteRequest ==
  /\ Len(e_calls) <= Max(retry_count, 0)
  /\ e_admissions = IF rate_limiter
                      THEN Len(e_calls) + (IF epc = "call" THEN 1 ELSE 0) ELSE 0
  /\ \A k \in 1..(Len(e_calls) - 1) : e_calls[k] = "raise"
  /\ e_sleeps = [k \in 1..Cardinality({j \in ExecFailed : j < retry_count})
                   |-> Pow2(k - 1)]
  /\ epc = "returned" =>
        IF e_calls # <<>> /\ e_calls[Len(e_calls)] = "ok"
          THEN e_return = Response(Len(e_calls))
          ELSE /\ e_return = ReturnsNone
               /\ Len(e_calls) = Max(retry_count, 0)
  /\ epc # "returned" => e_return = NotEnded

\* With a limiter, the third of three allowed invocations succeeded after
\* sleeps of 1 and 2 seconds.
C38_Witness ==
  /\ epc = "returned"
  /\ rate_limiter
  /\ retry_count = 3
  /\ e_calls = <<"raise", "raise", "ok">>
  /\ e_sleeps = <<1, 2>>
  /\ e_admissions = 3

\* The requests that failed with a RequestException.
ReqCaught == {k \in 1..Len(b_calls) : b_calls[k] = "request_exception"}

\* C39: _request sends at most max_retries requests, returns the JSON of the
\* first request that succeeds, sleeps retry_delay * 2**attempt after each
\* failed attempt but the last, and when all max_retries attempts have
\* failed it re-raises the last attempt's exception instead of returning
\* None.  (A failed attempt is the last one made also when its exception is
\* no RequestException or when time.sleep refuses a negative delay.)
C39_Request ==
  /\ Len(b_calls) <= Max(max_retries, 0)
  /\ \A k \in 1..(Len(b_calls) - 1) : b_calls[k] = "request_exception"
  /\ b_sleeps = IF retry_delay < 0 THEN <<>>
                ELSE [k \in 1..Cardinality({j \in ReqCaught : j < max_retries})
                        |-> retry_delay * Pow2(k - 1)]
  /\ bpc = "returned" =>
        IF b_calls # <<>>
          THEN b_calls[Len(b_calls)] = "ok" /\ b_end = Json(Len(b_calls))
          ELSE max_retries <= 0 /\ b_end = ReturnsNone
  /\ (b_calls # <<>> /\ Len(b_calls) = max_retries
        /\ b_calls[Len(b_calls)] = "request_exception") =>
        /\ bpc = "raised"
        /\ b_end = Raises(<<"request_exception", max_retries>>)

\* Three requests of three failed, after sleeps of 1 and 2 seconds, and the
\* third one's exception came out.
C39_Witness ==
  /\ bpc = "raised"
  /\ max_retries = 3
  /\ retry_delay = 1
  /\ b_calls = <<"request_exception", "request_exception", "request_exception">>
  /\ b_sleeps = <<1, 2>>
  /\ b_end = Raises(<<"request_exception", 3>>)

====
